---- MODULE Spec2Model ----
(***************************************************************************)
(* The message lifecycle pipeline of Django-signals_orm-0x04: the          *)
(* pre_save edit tracker, the post_save notification fan-out, the thread   *)
(* builder, the unread manager, the deletion of a user, and the ORM        *)
(* operations (save, cascade delete) that drive them.                      *)
(*                                                                         *)
(* The signal handlers of messaging/signals.py read the fields             *)
(* message_body, conversation and sender of a Message; views.py reads      *)
(* parent_message, replies and sent_at.  A Message row of the model        *)
(* carries all of these fields, with the handlers' field names; a field a  *)
(* creating call does not pass (create_reply passes no conversation) is    *)
(* Null.  Timestamps are a logical clock: sent_at and read_at are values   *)
(* of it, Null when unset; edited_at and updated_at are not modelled.      *)
(*                                                                         *)
(* delete_user runs in a transaction of the store: its reads see one       *)
(* state, its deletions reach the other requests at commit or not at all,  *)
(* and the foreign keys are checked at commit.  One such transaction is    *)
(* open at a time.                                                         *)
(*                                                                         *)
(* Beside the store stand the components that keep state of their own:     *)
(* a save() that another request may come between (its frame is in         *)
(* saving), the rate limit of OffensiveLanguageMiddleware in               *)
(* chats/middleware.py, the chats app's conversations and its post_delete  *)
(* handler, and the wrapper of retry_on_failure in                         *)
(* python-decorators-0x01/3-retry_on_failure.py.                           *)
(***************************************************************************)
EXTENDS Integers, Sequences, FiniteSets, TLC

VARIABLES
    tx,             \* the open user-deletion transaction, if any
    users,          \* ids of the stored User rows
    conversations,  \* conversation id -> [participants, is_group]
    messages,       \* message pk -> stored row
    instances,      \* client -> in-memory Message object it holds
    notifications,  \* sequence of Notification rows
    history,        \* sequence of MessageHistory rows
    next_id,        \* next auto-increment primary key of Message
    clock,          \* logical time, the source of sent_at
    ret,            \* outcome of the last operation
    saving,         \* client -> its save() in progress, between two statements
    ip_message_history, \* middleware: ip -> timestamps of its accepted POSTs
    get_response_calls, \* middleware: the requests passed to the next handler
    wrapper         \* retry_on_failure: the frame of the running wrapper

vars == <<tx, users, conversations, messages, instances, notifications, history,
          next_id, clock, ret, saving, ip_message_history, get_response_calls,
          wrapper>>

\* The state outside the message store: what an operation on the store
\* leaves alone.
elsewhere == <<saving, ip_message_history, get_response_calls, wrapper>>

(* ------------------------------ bounds -------------------------------- *)
NumUsers == 3
NumConvs == 1
NumClients == 1
MaxEditMsgs == 1
MaxEditClock == 3
MaxHistory == 2
MaxFanoutMsgs == 1
MaxFanoutClock == 2
MaxThreadMsgs == 4
MaxDepthArg == 3
MaxCorruptMsgs == 3
MaxUnreadMsgs == 3
MaxDeleteMsgs == 2
MaxDeleteHistory == 1
MaxParticipantConvs == 2
MaxInterleavedHistory == 2
MaxRateCalls == 6
MaxRateClock == 61
MaxRetries == 2
MaxPurgeMsgs == 1
MaxSystemNotifications == 2
MaxForestMsgs == 2
MaxForestHistory == 1
MaxForestClock == 3

Null == 0
Users == 1..NumUsers
ConvIds == 1..NumConvs
Clients == 1..NumClients
Bodies == {"hi", "hello"}

(* ------------------------------ helpers ------------------------------- *)
RECURSIVE SetToSeq(_)
SetToSeq(S) ==
    IF S = {} THEN <<>>
    ELSE LET x == CHOOSE y \in S : \A z \in S : y <= z
         IN <<x>> \o SetToSeq(S \ {x})

Reverse(s) == [i \in 1..Len(s) |-> s[Len(s) + 1 - i]]

NoThread == <<>>

\* No transaction is open.
NoTx == <<>>

Outcome(op, status, raised_in, pk, created) ==
    [op |-> op, status |-> status, raised_in |-> raised_in, pk |-> pk,
     created |-> created, max_depth |-> 0, thread |-> NoThread]

(* ------------------------------ models -------------------------------- *)
\* A fresh in-memory Message, as Message(...) builds it before save().
NewMessage(sender, receiver, conversation, parent_message, body) ==
    [pk |-> Null, conversation |-> conversation, sender |-> sender,
     receiver |-> receiver, parent_message |-> parent_message,
     message_body |-> body, is_read |-> FALSE, read_at |-> Null,
     edited |-> FALSE, sent_at |-> Null]

\* The stored row of an in-memory object (every field but the key).
RowOf(instance) ==
    [conversation |-> instance.conversation, sender |-> instance.sender,
     receiver |-> instance.receiver,
     parent_message |-> instance.parent_message,
     message_body |-> instance.message_body, is_read |-> instance.is_read,
     read_at |-> instance.read_at, edited |-> instance.edited,
     sent_at |-> instance.sent_at]

\* Message.objects.get(pk=m): an in-memory copy of the stored row.
ObjectOf(m, msgs) ==
    [pk |-> m, conversation |-> msgs[m].conversation,
     sender |-> msgs[m].sender, receiver |-> msgs[m].receiver,
     parent_message |-> msgs[m].parent_message,
     message_body |-> msgs[m].message_body, is_read |-> msgs[m].is_read,
     read_at |-> msgs[m].read_at, edited |-> msgs[m].edited,
     sent_at |-> msgs[m].sent_at]

MessageHistoryRow(message, old_content, edited_by) ==
    [message |-> message, old_content |-> old_content,
     edited_by |-> edited_by]

NotificationRow(user, message) ==
    [user |-> user, message |-> message, notification_type |-> "message",
     is_read |-> FALSE]

\* A Notification without a source message (models.py:134-138 and
\* 151-158: the types 'system' and 'reminder', message null=True).
SystemNotificationRow(user, notification_type) ==
    [user |-> user, message |-> Null, notification_type |-> notification_type,
     is_read |-> FALSE]

\* message.replies: the messages whose parent_message is m.
replies(m, msgs) == {r \in DOMAIN msgs : msgs[r].parent_message = m}

Descendants_no_cascade(S, msgs, fuel) == S

\* on_delete=CASCADE along parent_message: m and all its descendants.
RECURSIVE Descendants(_, _, _)
Descendants(S, msgs, fuel) ==
    LET more == S \cup {r \in DOMAIN msgs : msgs[r].parent_message \in S}
    IN IF more = S \/ fuel = 0 THEN S ELSE Descendants(more, msgs, fuel - 1)

(* ------------------------ Edit-History Tracker ------------------------ *)
content_changed_always(original_message, instance) == TRUE

\* signals.py:91
content_changed(original_message, instance) ==
    original_message.message_body # instance.message_body

does_not_exist_uncaught(instance, hist) ==
    [instance |-> instance, history |-> hist, raised |-> TRUE]

\* signals.py:104-106  except Message.DoesNotExist: pass
does_not_exist(instance, hist) ==
    [instance |-> instance, history |-> hist, raised |-> FALSE]

history_entry_new_content(original_message, instance) ==
    MessageHistoryRow(instance.pk, instance.message_body, instance.sender)

\* signals.py:93-98
history_entry(original_message, instance) ==
    MessageHistoryRow(instance.pk, original_message.message_body,
                      instance.sender)

\* signals.py:75-106
track_message_edits(instance, msgs, hist) ==
    IF instance.pk # Null
    THEN IF instance.pk \in DOMAIN msgs
         THEN LET original_message == msgs[instance.pk]
              IN IF content_changed(original_message, instance)
                 THEN [instance |-> [instance EXCEPT !.edited = TRUE],
                       history |-> Append(hist,
                           history_entry(original_message, instance)),
                       raised |-> FALSE]
                 ELSE [instance |-> instance, history |-> hist,
                       raised |-> FALSE]
         ELSE does_not_exist(instance, hist)
    ELSE [instance |-> instance, history |-> hist, raised |-> FALSE]

(* --------------------- Notification Fan-out Engine -------------------- *)
should_notify_always(created) == TRUE

\* signals.py:119
should_notify(created) == created

participants_including_sender(instance) ==
    conversations[instance.conversation].participants

\* signals.py:121-123
participants_excluding_sender(instance) ==
    conversations[instance.conversation].participants \ {instance.sender}

\* signals.py:109-133.  A message without a conversation makes
\* instance.conversation.participants raise AttributeError.
create_message_notification(instance, created, notifs) ==
    IF ~should_notify(created)
    THEN [notifications |-> notifs, raised |-> FALSE]
    ELSE IF instance.conversation = Null
    THEN [notifications |-> notifs, raised |-> TRUE]
    ELSE LET participants == SetToSeq(participants_excluding_sender(instance))
         IN [notifications |-> notifs \o
                 [i \in 1..Len(participants) |->
                     NotificationRow(participants[i], instance.pk)],
             raised |-> FALSE]

(* -------------------------- Thread Reconstructor ---------------------- *)
RECURSIVE order_by_sent_at(_, _)
\* order_by('sent_at'): ascending creation time.
order_by_sent_at(S, msgs) ==
    IF S = {} THEN <<>>
    ELSE LET first == CHOOSE x \in S :
                          \A y \in S : msgs[x].sent_at <= msgs[y].sent_at
         IN <<first>> \o order_by_sent_at(S \ {first}, msgs)

\* message.replies.all().  The replies of the root come from the Prefetch
\* of views.py:156-159, ordered by sent_at; the replies of any other
\* message are fetched by a query of their own, in the order of
\* Message.Meta.ordering = ['-sent_at'] (models.py:63-64).
replies_all(m, msgs, prefetched) ==
    IF prefetched
    THEN order_by_sent_at(replies(m, msgs), msgs)
    ELSE Reverse(order_by_sent_at(replies(m, msgs), msgs))

\* views.py:196-221
serialize_message(m, msgs) ==
    [id |-> m, content |-> msgs[m].message_body, sender |-> msgs[m].sender,
     parent_message_id |-> msgs[m].parent_message,
     is_read |-> msgs[m].is_read, edited |-> msgs[m].edited,
     sent_at |-> msgs[m].sent_at]

at_depth_bound_off_by_one(current_depth, max_depth) ==
    current_depth > max_depth

\* views.py:173
at_depth_bound(current_depth, max_depth) == current_depth >= max_depth

RECURSIVE build_thread_structure(_, _, _, _)
\* views.py:169-193
build_thread_structure(message, max_depth, current_depth, prefetched) ==
    IF at_depth_bound(current_depth, max_depth)
    THEN [message |-> serialize_message(message, messages),
          replies |-> <<>>,
          reply_count |-> Cardinality(replies(message, messages)),
          truncated |-> TRUE]
    ELSE LET rs == replies_all(message, messages, prefetched)
         IN [message |-> serialize_message(message, messages),
             replies |-> [i \in 1..Len(rs) |->
                 build_thread_structure(rs[i], max_depth,
                                        current_depth + 1, FALSE)],
             reply_count |-> Cardinality(replies(message, messages)),
             truncated |-> FALSE]

get_message_thread_recursive_top_level(message_id, max_depth) ==
    IF message_id \in DOMAIN messages
    THEN LET p == messages[message_id].parent_message
         IN <<build_thread_structure(IF p \in DOMAIN messages THEN p
                                     ELSE message_id, max_depth, 0, TRUE)>>
    ELSE NoThread

\* views.py:144-166: <<>> stands for None.
get_message_thread_recursive(message_id, max_depth) ==
    IF message_id \in DOMAIN messages
    THEN <<build_thread_structure(message_id, max_depth, 0, TRUE)>>
    ELSE NoThread

(* ------------------------------ Unread Index -------------------------- *)
\* The ids of a set of messages in the order of order_by('-sent_at').
order_by_minus_sent_at(S, msgs) == Reverse(order_by_sent_at(S, msgs))

\* message_ids=None is <<>>; a list of ids is <<the set of its ids>>.
NoIds == <<>>

\* managers.py:11-19
unread_for_user(user, msgs) ==
    order_by_minus_sent_at(
        {m \in DOMAIN msgs : msgs[m].receiver = user /\ ~msgs[m].is_read},
        msgs)

count_for_user_all_received(user, msgs) ==
    Cardinality({m \in DOMAIN msgs : msgs[m].receiver = user})

\* managers.py:21-28
count_for_user(user, msgs) ==
    Cardinality({m \in DOMAIN msgs :
                     msgs[m].receiver = user /\ ~msgs[m].is_read})

conversation_unread_newest_first(user, conversation_partner, msgs) ==
    order_by_minus_sent_at(
        {m \in DOMAIN msgs : /\ msgs[m].sender = conversation_partner
                             /\ msgs[m].receiver = user
                             /\ ~msgs[m].is_read},
        msgs)

\* managers.py:49-61
conversation_unread(user, conversation_partner, msgs) ==
    order_by_sent_at(
        {m \in DOMAIN msgs : /\ msgs[m].sender = conversation_partner
                             /\ msgs[m].receiver = user
                             /\ ~msgs[m].is_read},
        msgs)

\* managers.py:73  `if message_ids:` None and the empty list are both false.
ids_given(message_ids) == message_ids # NoIds /\ message_ids[1] # {}

bulk_mark_read_only_stamps(user, message_ids, msgs, now) ==
    LET queryset == {m \in DOMAIN msgs :
                         /\ msgs[m].receiver = user /\ ~msgs[m].is_read
                         /\ ids_given(message_ids) => m \in message_ids[1]}
    IN [messages |-> [m \in DOMAIN msgs |->
                         IF m \in queryset
                         THEN [msgs[m] EXCEPT !.read_at = now]
                         ELSE msgs[m]],
        count |-> Cardinality(queryset)]

bulk_mark_read_all_received(user, message_ids, msgs, now) ==
    LET queryset == {m \in DOMAIN msgs :
                         /\ msgs[m].receiver = user
                         /\ ids_given(message_ids) => m \in message_ids[1]}
    IN [messages |-> [m \in DOMAIN msgs |->
                         IF m \in queryset
                         THEN [msgs[m] EXCEPT !.is_read = TRUE,
                                              !.read_at = now]
                         ELSE msgs[m]],
        count |-> Cardinality(queryset)]

\* managers.py:63-79: one UPDATE statement; its value is the number of rows
\* the statement matched.
bulk_mark_read(user, message_ids, msgs, now) ==
    LET queryset == {m \in DOMAIN msgs :
                         /\ msgs[m].receiver = user /\ ~msgs[m].is_read
                         /\ ids_given(message_ids) => m \in message_ids[1]}
    IN [messages |-> [m \in DOMAIN msgs |->
                         IF m \in queryset
                         THEN [msgs[m] EXCEPT !.is_read = TRUE,
                                              !.read_at = now]
                         ELSE msgs[m]],
        count |-> Cardinality(queryset)]

(* ------------------------------ Model.save ---------------------------- *)
\* The foreign keys of the row still point at stored rows.
references_exist(instance) ==
    /\ instance.sender \in users
    /\ instance.receiver # Null => instance.receiver \in users
    /\ instance.conversation # Null =>
           instance.conversation \in DOMAIN conversations
    /\ instance.parent_message # Null =>
           instance.parent_message \in DOMAIN messages

SaveResult(status, raised_in, instance, created, msgs, hist, notifs, nid, clk) ==
    [status |-> status, raised_in |-> raised_in, instance |-> instance,
     created |-> created, messages |-> msgs, history |-> hist,
     notifications |-> notifs, next_id |-> nid, clock |-> clk]

\* Model.save_base() after the pre_save receivers: UPDATE by primary key or
\* else INSERT, then the post_save receivers.  hist is the history table the
\* receivers left.
save_base(i1, hist) ==
    IF i1.pk # Null /\ i1.pk \in DOMAIN messages
    THEN LET post == create_message_notification(i1, FALSE, notifications)
         IN SaveResult(IF post.raised THEN "AttributeError" ELSE "ok",
                       IF post.raised THEN "post_save" ELSE "none",
                       i1, FALSE,
                       [messages EXCEPT ![i1.pk] = RowOf(i1)],
                       hist, post.notifications, next_id, clock)
    ELSE IF ~references_exist(i1)
    THEN SaveResult("IntegrityError", "write", i1, FALSE,
                    messages, hist, notifications, next_id, clock)
    ELSE LET pk == IF i1.pk = Null THEN next_id ELSE i1.pk
             i2 == [i1 EXCEPT !.pk = pk, !.sent_at = clock]
             post == create_message_notification(i2, TRUE, notifications)
         IN SaveResult(IF post.raised THEN "AttributeError" ELSE "ok",
                       IF post.raised THEN "post_save" ELSE "none",
                       i2, TRUE,
                       (pk :> RowOf(i2)) @@ messages,
                       hist, post.notifications,
                       IF i1.pk = Null THEN next_id + 1 ELSE next_id,
                       clock + 1)

\* instance.save(): pre_save receivers, UPDATE by primary key or else
\* INSERT, then post_save receivers.  Every statement commits on its own:
\* no transaction encloses the write and the receivers.
save(instance) ==
    LET pre == track_message_edits(instance, messages, history)
    IN IF pre.raised
       THEN SaveResult("DoesNotExist", "pre_save", instance, FALSE,
                       messages, history, notifications, next_id, clock)
       ELSE save_base(pre.instance, pre.history)

Commit(op, r) ==
    /\ messages' = r.messages
    /\ history' = r.history
    /\ notifications' = r.notifications
    /\ next_id' = r.next_id
    /\ clock' = r.clock
    /\ ret' = Outcome(op, r.status, r.raised_in, r.instance.pk, r.created)

(* ------------------------- User-Deletion Cascade ---------------------- *)
\* A sequence without the rows at the indices in I.
WithoutIndices(seq, I) ==
    LET keep == SetToSeq((1..Len(seq)) \ I)
    IN [i \in 1..Len(keep) |-> seq[keep[i]]]

user_exists_always(user_id, us) == TRUE

\* views.py:37-42  User.objects.get(id=user_id) / except User.DoesNotExist
user_exists(user_id, us) == user_id \in us

cleanup_summary_copy_paste(user, msgs, notifs, hist) ==
    [sent_messages_deleted |->
         Cardinality({m \in DOMAIN msgs : msgs[m].sender = user}),
     received_messages_deleted |->
         Cardinality({m \in DOMAIN msgs : msgs[m].sender = user}),
     notifications_deleted |->
         Cardinality({i \in 1..Len(notifs) : notifs[i].user = user}),
     message_edit_history_deleted |->
         Cardinality({i \in 1..Len(hist) : hist[i].edited_by = user})]

\* views.py:62-65 and 77-82
cleanup_summary(user, msgs, notifs, hist) ==
    [sent_messages_deleted |->
         Cardinality({m \in DOMAIN msgs : msgs[m].sender = user}),
     received_messages_deleted |->
         Cardinality({m \in DOMAIN msgs : msgs[m].receiver = user}),
     notifications_deleted |->
         Cardinality({i \in 1..Len(notifs) : notifs[i].user = user}),
     message_edit_history_deleted |->
         Cardinality({i \in 1..Len(hist) : hist[i].edited_by = user})]

\* user.delete(): the rows the on_delete=CASCADE foreign keys of models.py
\* (sender, receiver, parent_message, Notification.user and .message,
\* MessageHistory.edited_by and .message) take along with the user.
user_cascade(user, msgs, notifs, hist) ==
    LET ms == Descendants({m \in DOMAIN msgs :
                               msgs[m].sender = user \/ msgs[m].receiver = user},
                          msgs, Cardinality(DOMAIN msgs))
    IN [messages |-> ms,
        notifications |-> {i \in 1..Len(notifs) :
            notifs[i].user = user \/ notifs[i].message \in ms},
        history |-> {i \in 1..Len(hist) :
            hist[i].edited_by = user \/ hist[i].message \in ms}]

\* signals.py:11-72, run on what the cascade left: the rows it deletes on
\* top of the cascade.  Line 64 selects every Notification without a
\* message, whoever owns it.
cleanup_user_data(instance, gone, msgs, notifs, hist) ==
    LET left == [m \in DOMAIN msgs \ gone.messages |-> msgs[m]]
        ms == Descendants({m \in DOMAIN left :
                               left[m].sender = instance
                                   \/ left[m].receiver = instance},
                          left, Cardinality(DOMAIN left))
    IN [messages |-> gone.messages \cup ms,
        notifications |-> gone.notifications \cup
            {i \in 1..Len(notifs) : \/ notifs[i].user = instance
                                    \/ notifs[i].message \in ms
                                    \/ notifs[i].message = Null},
        history |-> gone.history \cup
            {i \in 1..Len(hist) : \/ hist[i].edited_by = instance
                                  \/ hist[i].message \in ms}]

\* The store after the deletions of a transaction are applied to it.
without_user(user, gone) ==
    [users |-> users \ {user},
     conversations |-> [c \in DOMAIN conversations |->
         [conversations[c] EXCEPT !.participants = @ \ {user}]],
     messages |-> [m \in DOMAIN messages \ gone.messages |-> messages[m]],
     notifications |-> WithoutIndices(notifications, gone.notifications),
     history |-> WithoutIndices(history, gone.history)]

foreign_keys_unchecked(store) == TRUE

\* The foreign keys of models.py, as the store checks them at commit.
foreign_keys_hold(store) ==
    /\ \A m \in DOMAIN store.messages :
           /\ store.messages[m].sender \in store.users
           /\ store.messages[m].receiver \in store.users \cup {Null}
           /\ store.messages[m].parent_message
                  \in DOMAIN store.messages \cup {Null}
    /\ \A i \in 1..Len(store.notifications) :
           /\ store.notifications[i].user \in store.users
           /\ store.notifications[i].message
                  \in DOMAIN store.messages \cup {Null}
    /\ \A i \in 1..Len(store.history) :
           /\ store.history[i].edited_by \in store.users
           /\ store.history[i].message \in DOMAIN store.messages

(* ---------------- deletion of a user of the chats app ------------------ *)
\* chats/signals.py:4-7: the names the module of the handler binds.
chats_signals_names ==
    {"post_save", "pre_save", "post_delete", "receiver", "timezone",
     "Message", "User"}

\* chats/signals.py:10-73, run after the cascade has removed the user's
\* rows.  Line 28 looks up Notification and line 29 MessageHistory; a name
\* the module does not bind raises NameError there, before any cleanup.
chats_cleanup_user_data(instance, store) ==
    IF "Notification" \notin chats_signals_names
           \/ "MessageHistory" \notin chats_signals_names
    THEN [raised |-> "NameError", store |-> store]
    ELSE [raised |-> "none",
          store |-> [store EXCEPT
              !.notifications = SelectSeq(@, LAMBDA n :
                  n.user # instance /\ n.message # Null),
              !.history = SelectSeq(@, LAMBDA h : h.edited_by # instance),
              !.conversations = [c \in DOMAIN @ |->
                  [@[c] EXCEPT !.participants = @ \ {instance}]]]]

(* ----------------- OffensiveLanguageMiddleware (rate limit) ------------ *)
\* middleware.py:137-138
max_messages == 5
time_window == 60

\* A request: its method and the two entries of request.META the
\* middleware reads.  x_forwarded_for is the header split at the commas,
\* << >> when the header is absent or empty.
Request(method, x_forwarded_for, remote_addr) ==
    [method |-> method, x_forwarded_for |-> x_forwarded_for,
     remote_addr |-> remote_addr]

\* middleware.py:182-201
get_client_ip(request) ==
    IF request.x_forwarded_for # << >>
    THEN request.x_forwarded_for[1]
    ELSE request.remote_addr

\* middleware.py:217  if timestamp > cutoff_time
in_time_window(timestamp, cutoff_time) == timestamp > cutoff_time

\* middleware.py:203-222
cleanup_old_timestamps(ip_history, ip_address, current_time) ==
    LET cutoff_time == current_time - time_window
        recent == IF ip_address \in DOMAIN ip_history
                  THEN SelectSeq(ip_history[ip_address],
                           LAMBDA timestamp :
                               in_time_window(timestamp, cutoff_time))
                  ELSE << >>
    IN IF ip_address \in DOMAIN ip_history /\ recent # << >>
       THEN [ip_history EXCEPT ![ip_address] = recent]
       ELSE [ip \in DOMAIN ip_history \ {ip_address} |-> ip_history[ip]]

limit_exceeded_above(ip_history, ip_address) ==
    /\ ip_address \in DOMAIN ip_history
    /\ Len(ip_history[ip_address]) > max_messages

\* middleware.py:160
limit_exceeded(ip_history, ip_address) ==
    /\ ip_address \in DOMAIN ip_history
    /\ Len(ip_history[ip_address]) >= max_messages

(* ------------------------- retry_on_failure ---------------------------- *)
\* What an invocation of the wrapped function may raise:
\* sqlite3.OperationalError (3-retry_on_failure.py:122), another subclass
\* of Exception, and an exception that is not an Exception.
Raisable == {"OperationalError", "ValueError", "KeyboardInterrupt"}

caught_only_transient(e) == e = "OperationalError"

\* 3-retry_on_failure.py:75  except Exception as e
caught(e) == e \in {"OperationalError", "ValueError"}

loop_continues_once_more(attempts, retries) == attempts <= retries + 1

\* 3-retry_on_failure.py:71 and 79  attempts <= retries
loop_continues(attempts, retries) == attempts <= retries

\* The frame of wrapper(): its locals, the statement that runs next, the
\* outcomes of the invocations of func so far, and how it was left.
WrapperFrame(retries, delay, attempts, last_exception, pc, invocations, left) ==
    [retries |-> retries, delay |-> delay, attempts |-> attempts,
     last_exception |-> last_exception, pc |-> pc,
     invocations |-> invocations, left |-> left]

(* ------------------------------ actions ------------------------------- *)
\* No wrapped call is running.
NoFrame == <<>>

\* No save() is between two statements, the middleware was just built
\* (middleware.py:133-135) and no wrapped function was called yet.
InitElsewhere ==
    /\ saving = << >>
    /\ ip_message_history = << >>
    /\ get_response_calls = << >>
    /\ wrapper = NoFrame

Init ==
    /\ tx = NoTx
    /\ users = Users
    /\ conversations = << >>
    /\ messages = << >>
    /\ instances = << >>
    /\ notifications = << >>
    /\ history = << >>
    /\ next_id = 1
    /\ clock = 1
    /\ ret = Outcome("init", "ok", "none", Null, FALSE)
    /\ InitElsewhere

\* chats/views.py:63-78
ConversationViewSet_perform_create(user, participants, is_group) ==
    LET c == Cardinality(DOMAIN conversations) + 1
    IN /\ IF ~is_group /\ Cardinality(participants) # 1
          THEN /\ ret' = Outcome("create_conversation", "ValidationError",
                                 "view", Null, FALSE)
               /\ UNCHANGED conversations
          ELSE /\ conversations' = (c :> [participants |-> participants \cup {user},
                                          is_group |-> is_group]) @@ conversations
               /\ ret' = Outcome("create_conversation", "ok", "none", c, TRUE)
       /\ UNCHANGED <<elsewhere, tx, users, messages, instances, notifications, history,
                      next_id, clock>>

\* chats/views.py:242-253
MessageViewSet_perform_create(user, conversation, body) ==
    /\ conversation \in DOMAIN conversations
    /\ IF user \notin conversations[conversation].participants
       THEN /\ ret' = Outcome("create_message", "PermissionDenied", "view",
                              Null, FALSE)
            /\ UNCHANGED <<messages, notifications, history, next_id, clock>>
       ELSE Commit("create_message",
                   save(NewMessage(user, Null, conversation, Null, body)))
    /\ UNCHANGED <<elsewhere, tx, users, conversations, instances>>

\* views.py:285-333
create_reply(user, receiver_id, parent_message_id, content) ==
    /\ IF parent_message_id \notin DOMAIN messages \/ receiver_id \notin users
       THEN /\ ret' = Outcome("create_reply", "NotFound", "view", Null, FALSE)
            /\ UNCHANGED <<messages, notifications, history, next_id, clock>>
       ELSE Commit("create_reply",
                   save(NewMessage(user, receiver_id, Null,
                                   parent_message_id, content)))
    /\ UNCHANGED <<elsewhere, tx, users, conversations, instances>>

\* Message.objects.get(pk=...): a client loads a message into memory.
get_object(client, m) ==
    /\ m \in DOMAIN messages
    /\ instances' = (client :> ObjectOf(m, messages)) @@ instances
    /\ ret' = Outcome("get_object", "ok", "none", m, FALSE)
    /\ UNCHANGED <<elsewhere, tx, users, conversations, messages, notifications, history,
                   next_id, clock>>

\* instance.message_body = body; instance.save()
update(client, body) ==
    /\ client \in DOMAIN instances
    /\ LET r == save([instances[client] EXCEPT !.message_body = body])
       IN /\ Commit("save", r)
          /\ instances' = [instances EXCEPT ![client] = r.instance]
    /\ UNCHANGED <<elsewhere, tx, users, conversations>>

\* DELETE of a message, with the on_delete=CASCADE of models.py.
destroy(m) ==
    /\ m \in DOMAIN messages
    /\ LET gone == Descendants({m}, messages, Cardinality(DOMAIN messages))
       IN /\ messages' = [x \in DOMAIN messages \ gone |-> messages[x]]
          /\ notifications' = SelectSeq(notifications, LAMBDA n : n.message \notin gone)
          /\ history' = SelectSeq(history, LAMBDA h : h.message \notin gone)
    /\ ret' = Outcome("destroy", "ok", "none", m, FALSE)
    /\ UNCHANGED <<elsewhere, tx, users, conversations, instances, next_id, clock>>

\* views.py:265-282
get_message_thread(message_id, max_depth) ==
    LET thread_data == get_message_thread_recursive(message_id, max_depth)
    IN /\ ret' = [op |-> "get_message_thread",
                  status |-> IF thread_data = NoThread THEN "NotFound" ELSE "ok",
                  raised_in |-> "none", pk |-> message_id, created |-> FALSE,
                  max_depth |-> max_depth, thread |-> thread_data]
       /\ UNCHANGED <<elsewhere, tx, users, conversations, messages, instances,
                      notifications, history, next_id, clock>>

\* The value a manager call hands back: the ids of the evaluated queryset
\* in its order, or a number.
QueryOutcome(op, user, partner, message_ids, result, count) ==
    [user |-> user, partner |-> partner, message_ids |-> message_ids,
     result |-> result, count |-> count]
        @@ Outcome(op, "ok", "none", Null, FALSE)

\* list(Message.unread.unread_for_user(user))
call_unread_for_user(user) ==
    /\ ret' = QueryOutcome("unread_for_user", user, Null, NoIds,
                           unread_for_user(user, messages),
                           Len(unread_for_user(user, messages)))
    /\ UNCHANGED <<elsewhere, tx, users, conversations, messages, instances, notifications,
                   history, next_id, clock>>

\* Message.unread.count_for_user(user)
call_count_for_user(user) ==
    /\ ret' = QueryOutcome("count_for_user", user, Null, NoIds, <<>>,
                           count_for_user(user, messages))
    /\ UNCHANGED <<elsewhere, tx, users, conversations, messages, instances, notifications,
                   history, next_id, clock>>

\* list(Message.unread.conversation_unread(user, conversation_partner))
call_conversation_unread(user, conversation_partner) ==
    /\ ret' = QueryOutcome("conversation_unread", user, conversation_partner,
               NoIds,
               conversation_unread(user, conversation_partner, messages),
               Len(conversation_unread(user, conversation_partner, messages)))
    /\ UNCHANGED <<elsewhere, tx, users, conversations, messages, instances, notifications,
                   history, next_id, clock>>

\* Message.unread.bulk_mark_read(user, message_ids)
call_bulk_mark_read(user, message_ids) ==
    LET r == bulk_mark_read(user, message_ids, messages, clock)
    IN /\ messages' = r.messages
       /\ ret' = QueryOutcome("bulk_mark_read", user, Null, message_ids,
                              <<>>, r.count)
       /\ UNCHANGED <<elsewhere, tx, users, conversations, instances, notifications,
                      history, next_id, clock>>

\* views.py:97-120: the lookups of create_reply; the request then holds the
\* reply it is about to insert.
create_reply_get(client, user, receiver_id, parent_message_id, content) ==
    /\ IF parent_message_id \notin DOMAIN messages \/ receiver_id \notin users
       THEN /\ ret' = Outcome("create_reply", "NotFound", "view", Null, FALSE)
            /\ UNCHANGED instances
       ELSE /\ instances' = (client :> NewMessage(user, receiver_id, Null,
                                        parent_message_id, content))
                                @@ instances
            /\ ret' = Outcome("create_reply", "pending", "none", Null, FALSE)
    /\ UNCHANGED <<elsewhere, tx, users, conversations, messages, notifications, history,
                   next_id, clock>>

\* views.py:122-138: Message.objects.create(...) of the reply the request
\* holds, and the end of the request.
create_reply_create(client) ==
    /\ client \in DOMAIN instances
    /\ instances[client].pk = Null
    /\ Commit("create_reply", save(instances[client]))
    /\ instances' = [c \in DOMAIN instances \ {client} |-> instances[c]]
    /\ UNCHANGED <<elsewhere, tx, users, conversations>>

\* The answer of delete_user.
DeleteOutcome(status, raised_in, user_id, summary) ==
    [cleanup_summary |-> summary]
        @@ Outcome("delete_user", status, raised_in, user_id, FALSE)

NoSummary == <<>>

\* views.py:29-65: the user lookup, the opening of the transaction and its
\* reads.  The transaction reads the store as it is now; gone is what
\* user.delete() and the post_delete handler remove from that state.
delete_user_begin(user_id) ==
    /\ tx = NoTx
    /\ IF user_id = Null
       THEN /\ ret' = DeleteOutcome("BadRequest", "view", user_id, NoSummary)
            /\ UNCHANGED tx
       ELSE IF ~user_exists(user_id, users)
       THEN /\ ret' = DeleteOutcome("NotFound", "view", user_id, NoSummary)
            /\ UNCHANGED tx
       ELSE /\ tx' = <<[user |-> user_id,
                        cleanup_summary |->
                            cleanup_summary(user_id, messages, notifications,
                                            history),
                        gone |-> cleanup_user_data(user_id,
                                     user_cascade(user_id, messages,
                                                  notifications, history),
                                     messages, notifications, history),
                        stage |-> "counted"]>>
            /\ ret' = DeleteOutcome("pending", "none", user_id, NoSummary)
    /\ UNCHANGED <<elsewhere, users, conversations, messages, instances, notifications,
                   history, next_id, clock>>

\* views.py:72: user.delete() and the post_delete handler inside the
\* transaction.  Either may raise; the exception leaves the atomic block,
\* which rolls the transaction back, and the view answers 500.
user_delete(raises_in) ==
    /\ tx # NoTx
    /\ tx[1].stage = "counted"
    /\ IF raises_in = "none"
       THEN /\ tx' = <<[tx[1] EXCEPT !.stage = "deleted"]>>
            /\ ret' = DeleteOutcome("pending", "none", tx[1].user, NoSummary)
       ELSE /\ tx' = NoTx
            /\ ret' = DeleteOutcome("Exception", raises_in, tx[1].user,
                                    NoSummary)
    /\ UNCHANGED <<elsewhere, users, conversations, messages, instances, notifications,
                   history, next_id, clock>>

\* views.py:60 and 74-92: the end of the atomic block.  The commit applies
\* the deletions if the foreign keys hold in the resulting store; if they
\* do not, the transaction is rolled back and the view answers 500.
delete_user_commit ==
    /\ tx # NoTx
    /\ tx[1].stage = "deleted"
    /\ LET store == without_user(tx[1].user, tx[1].gone)
       IN IF foreign_keys_hold(store)
          THEN /\ users' = store.users
               /\ conversations' = store.conversations
               /\ messages' = store.messages
               /\ notifications' = store.notifications
               /\ history' = store.history
               /\ ret' = DeleteOutcome("ok", "none", tx[1].user,
                                       tx[1].cleanup_summary)
          ELSE /\ ret' = DeleteOutcome("IntegrityError", "commit",
                                       tx[1].user, NoSummary)
               /\ UNCHANGED <<users, conversations, messages, notifications,
                              history>>
    /\ tx' = NoTx
    /\ UNCHANGED <<elsewhere, instances, next_id, clock>>

(* --- save() statement by statement, for requests that run concurrently - *)
\* The frame of a save(): the object being saved, the row the pre_save
\* receiver read (<<row>>, or << >> when it read none) and the statement
\* that runs next.
Frame(op, instance, original_message, stage) ==
    [op |-> op, instance |-> instance,
     original_message |-> original_message, stage |-> stage]

\* signals.py:85-88: the receiver's read of the stored row.
pre_save_get(op, instance) ==
    Frame(op, instance,
          IF instance.pk # Null /\ instance.pk \in DOMAIN messages
          THEN <<messages[instance.pk]>> ELSE << >>,
          "read")

\* instance.message_body = body; instance.save(), up to the read of
\* signals.py:88.
update_get(client, body) ==
    /\ client \in DOMAIN instances
    /\ client \notin DOMAIN saving
    /\ saving' = (client :> pre_save_get("save",
                      [instances[client] EXCEPT !.message_body = body]))
                     @@ saving
    /\ ret' = Outcome("save", "pending", "none", instances[client].pk, FALSE)
    /\ UNCHANGED <<ip_message_history, get_response_calls, wrapper, tx, users,
                   conversations, messages, instances, notifications, history,
                   next_id, clock>>

\* models.py:69-73, up to the read of signals.py:88 inside self.save().
Message_mark_as_read_get(client) ==
    /\ client \in DOMAIN instances
    /\ client \notin DOMAIN saving
    /\ IF ~instances[client].is_read
       THEN /\ saving' = (client :> pre_save_get("mark_as_read",
                              [instances[client] EXCEPT !.is_read = TRUE,
                                                        !.read_at = clock]))
                             @@ saving
            /\ ret' = Outcome("mark_as_read", "pending", "none",
                              instances[client].pk, FALSE)
       ELSE /\ ret' = Outcome("mark_as_read", "ok", "none",
                              instances[client].pk, FALSE)
            /\ UNCHANGED saving
    /\ UNCHANGED <<ip_message_history, get_response_calls, wrapper, tx, users,
                   conversations, messages, instances, notifications, history,
                   next_id, clock>>

\* signals.py:90-106: the comparison with the row that was read and the
\* INSERT of the history row.
track_message_edits_create(client) ==
    /\ client \in DOMAIN saving
    /\ saving[client].stage = "read"
    /\ LET f == saving[client]
           instance == f.instance
       IN IF f.original_message # << >>
          THEN IF content_changed(f.original_message[1], instance)
               THEN /\ history' = Append(history,
                        history_entry(f.original_message[1], instance))
                    /\ saving' = [saving EXCEPT ![client] =
                           Frame(f.op, [instance EXCEPT !.edited = TRUE],
                                 f.original_message, "tracked")]
               ELSE /\ saving' = [saving EXCEPT ![client].stage = "tracked"]
                    /\ UNCHANGED history
          ELSE /\ UNCHANGED history
               /\ saving' = [saving EXCEPT ![client].stage =
                      IF instance.pk # Null
                             /\ does_not_exist(instance, history).raised
                      THEN "raised" ELSE "tracked"]
    /\ ret' = Outcome(saving[client].op, "pending", "none",
                      saving[client].instance.pk, FALSE)
    /\ UNCHANGED <<ip_message_history, get_response_calls, wrapper, tx, users,
                   conversations, messages, instances, notifications, next_id,
                   clock>>

\* The rest of save(): the UPDATE (or INSERT) of the message and the
\* post_save receivers; or the exception of the pre_save receiver leaving
\* save().
save_write(client) ==
    /\ client \in DOMAIN saving
    /\ saving[client].stage \in {"tracked", "raised"}
    /\ IF saving[client].stage = "raised"
       THEN /\ ret' = Outcome(saving[client].op, "DoesNotExist", "pre_save",
                              saving[client].instance.pk, FALSE)
            /\ UNCHANGED <<messages, history, notifications, next_id, clock,
                           instances>>
       ELSE LET r == save_base(saving[client].instance, history)
            IN /\ Commit(saving[client].op, r)
               /\ instances' = [instances EXCEPT ![client] = r.instance]
    /\ saving' = [c \in DOMAIN saving \ {client} |-> saving[c]]
    /\ UNCHANGED <<ip_message_history, get_response_calls, wrapper, tx, users,
                   conversations>>

\* chats/views.py:80-117.  get_object() looks the conversation up in
\* get_queryset(), the conversations of the requesting user (lines 42-61).
ConversationViewSet_add_participant(user, pk, user_id) ==
    /\ IF pk \notin DOMAIN conversations
       THEN /\ ret' = Outcome("add_participant", "NotFound", "view", pk, FALSE)
            /\ UNCHANGED conversations
       ELSE IF user \notin conversations[pk].participants
       THEN /\ ret' = Outcome("add_participant", "NotFound", "view", pk, FALSE)
            /\ UNCHANGED conversations
       ELSE IF user_id = Null
       THEN /\ ret' = Outcome("add_participant", "BadRequest", "view", pk,
                              FALSE)
            /\ UNCHANGED conversations
       ELSE IF user_id \notin users
       THEN /\ ret' = Outcome("add_participant", "NotFound", "view", pk, FALSE)
            /\ UNCHANGED conversations
       ELSE IF user_id \in conversations[pk].participants
       THEN /\ ret' = Outcome("add_participant", "ok", "none", pk, FALSE)
            /\ UNCHANGED conversations
       ELSE /\ conversations' = [conversations EXCEPT
                                    ![pk].participants = @ \cup {user_id}]
            /\ ret' = Outcome("add_participant", "ok", "none", pk, TRUE)
    /\ UNCHANGED <<elsewhere, tx, users, messages, instances, notifications,
                   history, next_id, clock>>

\* instance.delete() of a user of chats/models.py: the cascade and the
\* post_delete receiver of chats/signals.py run in the transaction that
\* Model.delete() opens; an exception of the receiver rolls it back.
User_delete(user) ==
    /\ user \in users
    /\ LET cascaded == without_user(user,
                           user_cascade(user, messages, notifications, history))
           handled == chats_cleanup_user_data(user, cascaded)
       IN IF handled.raised # "none"
          THEN /\ ret' = Outcome("User_delete", handled.raised, "post_delete",
                                 user, FALSE)
               /\ UNCHANGED <<users, conversations, messages, notifications,
                              history>>
          ELSE /\ users' = handled.store.users
               /\ conversations' = handled.store.conversations
               /\ messages' = handled.store.messages
               /\ notifications' = handled.store.notifications
               /\ history' = handled.store.history
               /\ ret' = Outcome("User_delete", "ok", "none", user, FALSE)
    /\ UNCHANGED <<elsewhere, tx, instances, next_id, clock>>

\* The answer of the middleware to a request.
CallOutcome(status, request) ==
    [request |-> request]
        @@ Outcome("OffensiveLanguageMiddleware", status, "none", Null, FALSE)

\* middleware.py:140-180.  datetime.now() is the clock; a request the
\* middleware lets through goes to get_response.
OffensiveLanguageMiddleware_call(request) ==
    /\ IF request.method = "POST"
       THEN LET ip_address == get_client_ip(request)
                current_time == clock
                cleaned == cleanup_old_timestamps(ip_message_history,
                                                  ip_address, current_time)
            IN IF limit_exceeded(cleaned, ip_address)
               THEN /\ ip_message_history' = cleaned
                    /\ ret' = CallOutcome("TooManyRequests", request)
                    /\ UNCHANGED get_response_calls
               ELSE /\ ip_message_history' =
                           IF ip_address \in DOMAIN cleaned
                           THEN [cleaned EXCEPT ![ip_address] =
                                    Append(@, current_time)]
                           ELSE (ip_address :> <<current_time>>) @@ cleaned
                    /\ get_response_calls' = Append(get_response_calls,
                           [request |-> request, time |-> current_time])
                    /\ ret' = CallOutcome("passed", request)
       ELSE /\ get_response_calls' = Append(get_response_calls,
                   [request |-> request, time |-> clock])
            /\ ret' = CallOutcome("passed", request)
            /\ UNCHANGED ip_message_history
    /\ UNCHANGED <<saving, wrapper, tx, users, conversations, messages,
                   instances, notifications, history, next_id, clock>>

\* Time passes between two requests.
tick(seconds) ==
    /\ clock' = clock + seconds
    /\ UNCHANGED <<elsewhere, tx, users, conversations, messages, instances,
                   notifications, history, next_id, ret>>

\* 3-retry_on_failure.py:67-69: a call of the wrapped function.
wrapper_call(retries, delay) ==
    /\ IF wrapper = NoFrame THEN TRUE ELSE wrapper.pc = "done"
    /\ wrapper' = WrapperFrame(retries, delay, 0, "None", "while", << >>,
                               "running")
    /\ UNCHANGED <<saving, ip_message_history, get_response_calls, tx, users,
                   conversations, messages, instances, notifications, history,
                   next_id, clock, ret>>

\* 3-retry_on_failure.py:71: the test of the loop; past the loop the
\* wrapper falls off its end and returns None.
wrapper_while ==
    /\ wrapper # NoFrame
    /\ wrapper.pc = "while"
    /\ wrapper' = IF loop_continues(wrapper.attempts, wrapper.retries)
                  THEN [wrapper EXCEPT !.pc = "try"]
                  ELSE [wrapper EXCEPT !.pc = "done", !.left = "return None"]
    /\ UNCHANGED <<saving, ip_message_history, get_response_calls, tx, users,
                   conversations, messages, instances, notifications, history,
                   next_id, clock, ret>>

\* 3-retry_on_failure.py:74: func returns and the wrapper returns its
\* result.
func_returns ==
    /\ wrapper # NoFrame
    /\ wrapper.pc = "try"
    /\ wrapper' = [wrapper EXCEPT
                      !.invocations = Append(@, "rows"),
                      !.pc = "done", !.left = "return rows"]
    /\ UNCHANGED <<saving, ip_message_history, get_response_calls, tx, users,
                   conversations, messages, instances, notifications, history,
                   next_id, clock, ret>>

\* 3-retry_on_failure.py:74-93: func raises e.
func_raises(e) ==
    /\ wrapper # NoFrame
    /\ wrapper.pc = "try"
    /\ wrapper' =
           IF ~caught(e)
           THEN [wrapper EXCEPT !.invocations = Append(@, e),
                                !.pc = "done", !.left = "raise " \o e]
           ELSE IF loop_continues(wrapper.attempts + 1, wrapper.retries)
           THEN [wrapper EXCEPT !.invocations = Append(@, e),
                                !.attempts = @ + 1, !.last_exception = e,
                                !.pc = "sleep"]
           ELSE [wrapper EXCEPT !.invocations = Append(@, e),
                                !.attempts = @ + 1, !.last_exception = e,
                                !.pc = "done", !.left = "raise " \o e]
    /\ UNCHANGED <<saving, ip_message_history, get_response_calls, tx, users,
                   conversations, messages, instances, notifications, history,
                   next_id, clock, ret>>

\* 3-retry_on_failure.py:86: time.sleep(delay), which raises ValueError
\* for a negative delay; the exception leaves the wrapper from inside the
\* except block.
time_sleep ==
    /\ wrapper # NoFrame
    /\ wrapper.pc = "sleep"
    /\ wrapper' = IF wrapper.delay < 0
                  THEN [wrapper EXCEPT !.pc = "done",
                                       !.left = "raise ValueError"]
                  ELSE [wrapper EXCEPT !.pc = "while"]
    /\ UNCHANGED <<saving, ip_message_history, get_response_calls, tx, users,
                   conversations, messages, instances, notifications, history,
                   next_id, clock, ret>>

\* Notification.objects.create(user=..., notification_type=...) with no
\* message: a system or reminder notification.
Notification_create(user, notification_type) ==
    /\ user \in users
    /\ notifications' = Append(notifications,
                               SystemNotificationRow(user, notification_type))
    /\ ret' = Outcome("create_notification", "ok", "none", Null, TRUE)
    /\ UNCHANGED <<elsewhere, tx, users, conversations, messages, instances,
                   history, next_id, clock>>

(* ------- the edit tracker: loads, saves and deletes interleaved ------- *)
NextEdit ==
    \/ conversations = << >> /\ ConversationViewSet_perform_create(1, {2}, FALSE)
    \/ \E u \in {1, 2}, b \in Bodies :
           next_id <= MaxEditMsgs /\ clock <= MaxEditClock
           /\ MessageViewSet_perform_create(u, 1, b)
    \/ \E cl \in Clients, m \in 1..MaxEditMsgs : get_object(cl, m)
    \/ \E cl \in Clients, b \in Bodies :
           Len(history) < MaxHistory /\ clock <= MaxEditClock
           /\ update(cl, b)
    \/ \E m \in 1..MaxEditMsgs : destroy(m)

SpecEdit == Init /\ [][NextEdit]_vars

(* ------- the fan-out: every participant set, every sender, re-saves --- *)
NextFanout ==
    \/ \E ps \in SUBSET Users, g \in BOOLEAN :
           Cardinality(DOMAIN conversations) < NumConvs
           /\ ConversationViewSet_perform_create(1, ps, g)
    \/ \E u \in Users, c \in ConvIds :
           next_id <= MaxFanoutMsgs /\ clock <= MaxFanoutClock
           /\ MessageViewSet_perform_create(u, c, "hi")
    \/ \E cl \in Clients, m \in 1..MaxFanoutMsgs : get_object(cl, m)
    \/ \E cl \in Clients : clock <= MaxFanoutClock /\ update(cl, "hi")
    \/ \E m \in 1..MaxFanoutMsgs : destroy(m)

SpecFanout == Init /\ [][NextFanout]_vars

(* ---------------- the thread builder on stores the views build -------- *)
NextThread ==
    \/ conversations = << >> /\ ConversationViewSet_perform_create(1, {2}, FALSE)
    \/ \E u \in {1, 2} :
           next_id <= MaxThreadMsgs /\ MessageViewSet_perform_create(u, 1, "hi")
    \/ \E u \in {1, 2}, p \in 1..MaxThreadMsgs :
           next_id <= MaxThreadMsgs /\ create_reply(u, 1, p, "hi")
    \/ \E m \in 1..MaxThreadMsgs, k \in 0..MaxDepthArg :
           get_message_thread(m, k)

SpecThread == Init /\ [][NextThread]_vars

(* ------------- the thread builder on stores with corrupt links --------- *)
\* A store whose parent_message links were corrupted: any link at all,
\* cycles and self-references included.
InitCorrupt ==
    /\ tx = NoTx
    /\ users = Users
    /\ conversations = << >>
    /\ \E parent \in [1..MaxCorruptMsgs -> 0..MaxCorruptMsgs] :
           messages = [m \in 1..MaxCorruptMsgs |->
               [conversation |-> Null, sender |-> 1, receiver |-> 1,
                parent_message |-> parent[m], message_body |-> "hi",
                is_read |-> FALSE, read_at |-> Null, edited |-> FALSE,
                sent_at |-> m]]
    /\ instances = << >>
    /\ notifications = << >>
    /\ history = << >>
    /\ next_id = MaxCorruptMsgs + 1
    /\ clock = MaxCorruptMsgs + 1
    /\ ret = Outcome("init", "ok", "none", Null, FALSE)
    /\ InitElsewhere

NextCorrupt ==
    \E m \in 1..MaxCorruptMsgs, k \in 0..MaxDepthArg : get_message_thread(m, k)

SpecCorrupt == InitCorrupt /\ [][NextCorrupt]_vars

(* ------- the unread index: arrivals, markings and reads interleaved ---- *)
\* Messages with a receiver arrive as replies to a first message.
NextUnread ==
    \/ conversations = << >> /\ ConversationViewSet_perform_create(1, {2}, FALSE)
    \/ next_id = 1 /\ MessageViewSet_perform_create(1, 1, "hi")
    \/ \E u \in {1, 2}, r \in {1, 2} :
           next_id <= MaxUnreadMsgs /\ create_reply(u, r, 1, "hi")
    \/ \E u \in {1, 2} : call_unread_for_user(u)
    \/ \E u \in {1, 2} : call_count_for_user(u)
    \/ \E u \in {1, 2}, p \in {1, 2} : call_conversation_unread(u, p)
    \/ \E u \in {1, 2}, ids \in {NoIds} \cup {<<S>> : S \in SUBSET (1..MaxUnreadMsgs)} :
           call_bulk_mark_read(u, ids)

SpecUnread == Init /\ [][NextUnread]_vars

(* ------- user deletion interleaved with sends and edits ---------------- *)
\* A write of another request waits while the deleting transaction holds
\* its uncommitted deletions.
\* A request is made by a stored user: the views are behind login_required
\* and IsAuthenticated, and the participants of a new conversation are
\* validated against the stored users.
write_lock_free == IF tx = NoTx THEN TRUE ELSE tx[1].stage # "deleted"

NextDelete ==
    \/ /\ conversations = << >>
       /\ {1, 2} \subseteq users
       /\ ConversationViewSet_perform_create(1, {2}, FALSE)
    \/ \E u \in {1, 2} :
           /\ write_lock_free
           /\ u \in users
           /\ next_id <= MaxDeleteMsgs
           /\ MessageViewSet_perform_create(u, 1, "hi")
    \/ \E cl \in {1}, u \in {1, 2}, r \in {1, 2} :
           /\ cl \notin DOMAIN instances
           /\ u \in users
           /\ next_id <= MaxDeleteMsgs
           /\ create_reply_get(cl, u, r, 1, "hi")
    \/ \E cl \in {1} : write_lock_free /\ create_reply_create(cl)
    \/ \E cl \in {1}, m \in 1..MaxDeleteMsgs :
           cl \notin DOMAIN instances /\ get_object(cl, m)
    \/ \E cl \in {1} :
           /\ write_lock_free
           /\ cl \in DOMAIN instances
           /\ instances[cl].pk # Null
           /\ Len(history) < MaxDeleteHistory
           /\ update(cl, "hello")
    \/ \E user_id \in {Null, 1, 2, NumUsers + 1} :
           delete_user_begin(user_id)
    \/ \E raises_in \in {"none", "cascade", "post_delete"} :
           user_delete(raises_in)
    \/ delete_user_commit

SpecDelete == Init /\ [][NextDelete]_vars

(* ------- conversations: creations, additions and user deletions ------- *)
\* A request is made by a stored user and names stored users as
\* participants (the serializer validates them against User.objects).
NextParticipants ==
    \/ \E u \in Users, ps \in SUBSET Users, g \in BOOLEAN :
           /\ Cardinality(DOMAIN conversations) < MaxParticipantConvs
           /\ {u} \cup ps \subseteq users
           /\ ConversationViewSet_perform_create(u, ps, g)
    \/ \E u \in Users, c \in 1..MaxParticipantConvs,
              user_id \in Users \cup {Null, NumUsers + 1} :
           u \in users /\ ConversationViewSet_add_participant(u, c, user_id)
    \/ \E u \in Users : User_delete(u)

SpecParticipants == Init /\ [][NextParticipants]_vars

(* ------- two requests on one message, their statements interleaved ---- *)
NextInterleaved ==
    \/ conversations = << >> /\ ConversationViewSet_perform_create(1, {2}, FALSE)
    \/ next_id = 1 /\ MessageViewSet_perform_create(1, 1, "hi")
    \/ \E cl \in {1, 2} : cl \notin DOMAIN saving /\ get_object(cl, 1)
    \/ \E cl \in {1, 2}, b \in Bodies :
           Len(history) < MaxInterleavedHistory /\ update_get(cl, b)
    \/ \E cl \in {1, 2} :
           Len(history) < MaxInterleavedHistory /\ Message_mark_as_read_get(cl)
    \/ \E cl \in {1, 2} : track_message_edits_create(cl)
    \/ \E cl \in {1, 2} : save_write(cl)

SpecInterleaved == Init /\ [][NextInterleaved]_vars

(* ------- the rate limit: requests of two addresses over time ----------- *)
\* A POST of address 1, a POST of address 2, a POST that a proxy at
\* address 2 forwards for address 1, and a GET of address 1.
Requests ==
    {Request("POST", << >>, 1), Request("POST", << >>, 2),
     Request("POST", <<1, 2>>, 2), Request("GET", << >>, 1)}

NextRateLimit ==
    \/ \E request \in Requests :
           /\ Len(get_response_calls) < MaxRateCalls
           /\ OffensiveLanguageMiddleware_call(request)
    \/ \E seconds \in {30} :
           clock + seconds <= MaxRateClock /\ tick(seconds)

SpecRateLimit == Init /\ [][NextRateLimit]_vars

(* ------- the retry wrapper around a function that ends every time ------ *)
\* The wrapped function returns or raises at every invocation, and the
\* interpreter runs the statements of the wrapper one after the other.
NextRetry ==
    \/ \E retries \in -1..MaxRetries, delay \in {-1, 0, 1} :
           wrapper_call(retries, delay)
    \/ wrapper_while
    \/ func_returns
    \/ \E e \in Raisable : func_raises(e)
    \/ time_sleep

SpecRetry ==
    /\ Init
    /\ [][NextRetry]_vars
    /\ WF_vars(wrapper_while)
    /\ WF_vars(func_returns \/ \E e \in Raisable : func_raises(e))
    /\ WF_vars(time_sleep)

(* ------- user deletion with system notifications in the store --------- *)
NextPurge ==
    \/ /\ conversations = << >>
       /\ {1, 2} \subseteq users
       /\ ConversationViewSet_perform_create(1, {2}, FALSE)
    \/ \E u \in {1, 2} :
           /\ write_lock_free
           /\ u \in users
           /\ next_id <= MaxPurgeMsgs
           /\ MessageViewSet_perform_create(u, 1, "hi")
    \/ \E u \in {1, 2, 3}, t \in {"system", "reminder"} :
           /\ write_lock_free
           /\ Cardinality({i \in 1..Len(notifications) :
                               notifications[i].message = Null})
                  < MaxSystemNotifications
           /\ Notification_create(u, t)
    \/ \E user_id \in {1, 2} : delete_user_begin(user_id)
    \/ \E raises_in \in {"none", "post_delete"} : user_delete(raises_in)
    \/ delete_user_commit

SpecPurge == Init /\ [][NextPurge]_vars

(* ------- the parent links under every operation that writes messages --- *)
\* Messages of user 1, replies of user 2 to them (between the lookups and
\* the INSERT of a reply another request may run), edits and read-markings
\* of a loaded message, deletions of messages and the deletion of user 1,
\* which takes the replies of user 2 with it only through their parent
\* links.
NextForest ==
    \/ /\ conversations = << >>
       /\ {1, 2} \subseteq users
       /\ ConversationViewSet_perform_create(1, {2}, FALSE)
    \/ \E u \in {1} :
           /\ write_lock_free
           /\ u \in users
           /\ next_id <= MaxForestMsgs
           /\ MessageViewSet_perform_create(u, 1, "hi")
    \/ \E cl \in {1}, u \in {2}, r \in {2}, p \in 1..MaxForestMsgs :
           /\ cl \notin DOMAIN instances
           /\ u \in users
           /\ next_id <= MaxForestMsgs
           /\ create_reply_get(cl, u, r, p, "hi")
    \/ \E cl \in {1} : write_lock_free /\ create_reply_create(cl)
    \/ \E cl \in {1}, m \in 1..MaxForestMsgs :
           cl \notin DOMAIN saving /\ get_object(cl, m)
    \/ \E cl \in {1} :
           /\ write_lock_free
           /\ cl \in DOMAIN instances
           /\ cl \notin DOMAIN saving
           /\ instances[cl].pk # Null
           /\ Len(history) < MaxForestHistory
           /\ clock <= MaxForestClock
           /\ update(cl, "hello")
    \/ \E cl \in {1} :
           /\ cl \in DOMAIN instances
           /\ instances[cl].pk # Null
           /\ clock <= MaxForestClock
           /\ Message_mark_as_read_get(cl)
    \/ \E cl \in {1} : track_message_edits_create(cl)
    \/ \E cl \in {1} : write_lock_free /\ save_write(cl)
    \/ \E m \in 1..MaxForestMsgs : write_lock_free /\ destroy(m)
    \/ \E user_id \in {1} : delete_user_begin(user_id)
    \/ \E raises_in \in {"none", "post_delete"} : user_delete(raises_in)
    \/ delete_user_commit

SpecForest == Init /\ [][NextForest]_vars

(* ============================== claims ================================ *)
NotificationsOf(m, u, notifs) ==
    {i \in 1..Len(notifs) : notifs[i].message = m /\ notifs[i].user = u}

HistoryOf(m, hist) == {i \in 1..Len(hist) : hist[i].message = m}

C6_CreateIsAllOrNothing ==
    (ret.op \in {"create_message", "create_reply"}
         /\ ret.raised_in = "post_save")
    => /\ ret.pk \notin DOMAIN messages
       /\ \A i \in 1..Len(notifications) : notifications[i].message # ret.pk

\* C7: a reply created by a user other than the parent's author leaves a
\* Notification for the parent's author.
C7_ReplyNotifiesParentAuthor ==
    (/\ ret.op \in {"create_message", "create_reply"}
     /\ ret.created
     /\ ret.pk \in DOMAIN messages
     /\ messages[ret.pk].parent_message \in DOMAIN messages
     /\ messages[messages[ret.pk].parent_message].sender
            # messages[ret.pk].sender)
    => NotificationsOf(ret.pk,
                       messages[messages[ret.pk].parent_message].sender,
                       notifications) # {}

(* ------------------------- claims on the thread ----------------------- *)
RECURSIVE TreeDepth(_)
TreeDepth(node) ==
    IF node.replies = <<>> THEN 0
    ELSE LET d == [i \in 1..Len(node.replies) |-> TreeDepth(node.replies[i])]
         IN 1 + d[CHOOSE i \in 1..Len(d) : \A j \in 1..Len(d) : d[j] <= d[i]]

RECURSIVE C8_NodeOK(_, _, _)
C8_NodeOK(node, depth, k) ==
    LET direct == {m \in DOMAIN messages :
                       messages[m].parent_message = node.message.id}
    IN /\ node.reply_count = Cardinality(direct)
       /\ IF depth = k
          THEN node.truncated /\ node.replies = <<>>
          ELSE /\ ~node.truncated
               /\ Len(node.replies) = Cardinality(direct)
               /\ {node.replies[i].message.id : i \in 1..Len(node.replies)}
                      = direct
               /\ \A i \in 1..Len(node.replies) :
                      C8_NodeOK(node.replies[i], depth + 1, k)

\* C8: in the tree built with max_depth = k, every node at depth k is
\* truncated with an empty replies list and the true count of its direct
\* replies; every node above depth k is not truncated and lists one node
\* per direct reply.
C8_TruncatedAtDepthBound ==
    (ret.op = "get_message_thread" /\ ret.thread # NoThread)
    => C8_NodeOK(ret.thread[1], 0, ret.max_depth)

RECURSIVE HasCutNode(_, _, _)
HasCutNode(node, depth, k) ==
    \/ depth = k /\ node.truncated /\ node.reply_count > 0
    \/ \E i \in 1..Len(node.replies) : HasCutNode(node.replies[i], depth + 1, k)

\* A thread deeper than the bound: a node at depth k >= 1 with replies
\* it does not list.
C8_Witness ==
    /\ ret.op = "get_message_thread" /\ ret.thread # NoThread
    /\ ret.max_depth >= 1
    /\ HasCutNode(ret.thread[1], 0, ret.max_depth)

RECURSIVE ChildrenAscending(_)
ChildrenAscending(node) ==
    /\ \A i, j \in 1..Len(node.replies) :
           i < j => node.replies[i].message.sent_at
                        < node.replies[j].message.sent_at
    /\ \A i \in 1..Len(node.replies) : ChildrenAscending(node.replies[i])

\* C9: the children of every expanded node of the returned tree, at every
\* depth, are listed in ascending order of sent_at.
C9_ChildrenAscendingEverywhere ==
    (ret.op = "get_message_thread" /\ ret.thread # NoThread)
    => ChildrenAscending(ret.thread[1])

RECURSIVE RepeatsAreCut(_, _)
RepeatsAreCut(node, ancestors) ==
    /\ node.message.id \in ancestors =>
           node.truncated /\ node.replies = <<>>
    /\ \A i \in 1..Len(node.replies) :
           RepeatsAreCut(node.replies[i], ancestors \cup {node.message.id})

\* C10: when the parent links contain a cycle, a node whose id reappears
\* on its own ancestor path is not expanded and is marked truncated.
C10_CycleStopsExpansion ==
    (ret.op = "get_message_thread" /\ ret.thread # NoThread)
    => RepeatsAreCut(ret.thread[1], {})

(* ------------------------ claims on the thread root ------------------- *)
\* C11: a thread request answers NotFound (None, mapped to 404) exactly
\* when no message with the root id is stored, and then leaves the store
\* unchanged; for a stored root id it answers one thread node whose message
\* is that root.
C11_NotFoundIffRootMissing ==
    [][ret'.op = "get_message_thread"
       => LET m == ret'.pk
          IN /\ (ret'.thread = NoThread) <=> (m \notin DOMAIN messages)
             /\ (ret'.status = "NotFound") <=> (m \notin DOMAIN messages)
             /\ UNCHANGED <<tx, users, conversations, messages, instances,
                            notifications, history, next_id, clock>>
             /\ m \in DOMAIN messages
                    => /\ Len(ret'.thread) = 1
                       /\ ret'.thread[1].message
                              = serialize_message(m, messages)]_vars

\* A missing root id was asked of a store that holds other messages.
C11_Witness ==
    /\ ret.op = "get_message_thread" /\ ret.status = "NotFound"
    /\ ret.thread = NoThread
    /\ ret.pk \notin DOMAIN messages
    /\ \E m \in DOMAIN messages : replies(m, messages) # {}

(* ----------------------- claims on the unread index ------------------- *)
Range(seq) == {seq[i] : i \in 1..Len(seq)}

UnreadSet(u, msgs) ==
    {m \in DOMAIN msgs : msgs[m].receiver = u /\ msgs[m].is_read = FALSE}

\* C12: in every state and for every user u, unread_for_user(u) holds
\* exactly the messages with receiver = u and is_read = false, each once,
\* and count_for_user(u) is the number of those messages; the values the
\* two calls returned are those of the store they ran on.
C12_UnreadIsReceiverAndNotRead ==
    /\ \A u \in users :
           /\ Range(unread_for_user(u, messages)) = UnreadSet(u, messages)
           /\ Len(unread_for_user(u, messages))
                  = Cardinality(UnreadSet(u, messages))
           /\ count_for_user(u, messages)
                  = Cardinality(UnreadSet(u, messages))
    /\ ret.op = "unread_for_user"
           => /\ Range(ret.result) = UnreadSet(ret.user, messages)
              /\ Len(ret.result) = Cardinality(UnreadSet(ret.user, messages))
    /\ ret.op = "count_for_user"
           => ret.count = Cardinality(UnreadSet(ret.user, messages))

\* A count of one that leaves out a message the user has already read and
\* an unread message that is not addressed to the user.
C12_Witness ==
    /\ ret.op = "count_for_user" /\ ret.count = 1
    /\ \E m \in DOMAIN messages :
           messages[m].receiver = ret.user /\ messages[m].is_read
    /\ \E m \in DOMAIN messages :
           messages[m].receiver # ret.user /\ ~messages[m].is_read

\* C13: reads are never stale.  A message created for user u is unread for
\* u from the step that creates it and stays so through every step that is
\* not a bulk_mark_read of u; every message a bulk_mark_read of u changes
\* is out of u's unread set from that step on; and every read returns the
\* unread set, or its size, of the store at the moment it runs.  Hence the
\* next read after an arrival includes the arrival, and the next read after
\* a marking leaves out what was marked, under every interleaving.
C13_ReadsReflectWrites ==
    [][/\ (ret'.op = "create_reply" /\ ret'.created)
            => LET m == ret'.pk
                   u == messages'[m].receiver
               IN /\ m \in Range(unread_for_user(u, messages'))
                  /\ count_for_user(u, messages')
                         = count_for_user(u, messages) + 1
       /\ \A u \in users : \A m \in UnreadSet(u, messages) :
              (ret'.op # "bulk_mark_read" \/ ret'.user # u)
                  => m \in Range(unread_for_user(u, messages'))
       /\ ret'.op = "bulk_mark_read"
            => /\ \A m \in DOMAIN messages :
                      messages'[m] # messages[m]
                          => m \notin Range(unread_for_user(ret'.user,
                                                            messages'))
               /\ count_for_user(ret'.user, messages')
                      = count_for_user(ret'.user, messages) - ret'.count
       /\ \A m \in DOMAIN messages :
              messages[m].is_read
                  => m \in DOMAIN messages' /\ messages'[m].is_read
       /\ ret'.op = "count_for_user"
            => ret'.count = Cardinality(UnreadSet(ret'.user, messages))
       /\ ret'.op = "unread_for_user"
            => Range(ret'.result) = UnreadSet(ret'.user, messages)]_vars

\* A read after a marking and a later arrival: it lists the arrival and
\* leaves out the message marked before.
C13_Witness ==
    /\ ret.op = "unread_for_user"
    /\ \E old, new \in DOMAIN messages :
           /\ messages[old].receiver = ret.user
           /\ messages[new].receiver = ret.user
           /\ messages[old].read_at # Null
           /\ messages[new].sent_at >= messages[old].read_at
           /\ new \in Range(ret.result)
           /\ old \notin Range(ret.result)

\* C14: bulk_mark_read(u) without an id list sets is_read and a non-null
\* read_at on every message that was unread for u, returns the number of
\* messages it changed, and marks no message whose sender is u, a message
\* u sent to themselves included.
C14_BulkMarkReadSparesOwnMessages ==
    [][(ret'.op = "bulk_mark_read" /\ ret'.message_ids = NoIds)
       => LET u == ret'.user
          IN /\ \A m \in UnreadSet(u, messages) :
                    messages'[m].is_read /\ messages'[m].read_at # Null
             /\ ret'.count = Cardinality({m \in DOMAIN messages :
                                              messages'[m] # messages[m]})
             /\ \A m \in DOMAIN messages :
                    (messages[m].sender = u /\ ~messages[m].is_read)
                        => ~messages'[m].is_read]_vars

\* C15: bulk_mark_read(u) without an id list is idempotent: after the call
\* count_for_user(u) is 0; a call that directly follows such a call for the
\* same user, or that finds nothing unread for u, changes no message and
\* returns 0.
C15_BulkMarkReadIdempotent ==
    [][(ret'.op = "bulk_mark_read" /\ ret'.message_ids = NoIds)
       => LET u == ret'.user
          IN /\ count_for_user(u, messages') = 0
             /\ UnreadSet(u, messages') = {}
             /\ (/\ ret.op = "bulk_mark_read"
                 /\ ret.user = u
                 /\ ret.message_ids = NoIds)
                    => ret'.count = 0 /\ messages' = messages
             /\ UnreadSet(u, messages) = {}
                    => ret'.count = 0 /\ messages' = messages]_vars

\* A call that found nothing left to mark after an earlier marking.
C15_Witness ==
    /\ ret.op = "bulk_mark_read" /\ ret.message_ids = NoIds
    /\ ret.count = 0
    /\ \E m \in DOMAIN messages :
           /\ messages[m].receiver = ret.user
           /\ messages[m].is_read /\ messages[m].read_at # Null

\* C16: bulk_mark_read(u, message_ids) with an id list, the empty list
\* included, changes only messages whose id is in the list, and of those
\* only the ones unread and addressed to u; every other message keeps its
\* is_read and read_at.
C16_ExplicitIdsMarkOnlyListed ==
    [][(ret'.op = "bulk_mark_read" /\ ret'.message_ids # NoIds)
       => LET u == ret'.user
              ids == ret'.message_ids[1]
          IN \A m \in DOMAIN messages :
                 /\ m \notin ids
                        => /\ messages'[m].is_read = messages[m].is_read
                           /\ messages'[m].read_at = messages[m].read_at
                 /\ messages'[m] # messages[m]
                        => /\ m \in ids
                           /\ messages[m].receiver = u
                           /\ ~messages[m].is_read]_vars

Ascending(r, msgs) ==
    \A i, j \in 1..Len(r) : i < j => msgs[r[i]].sent_at <= msgs[r[j]].sent_at

Descending(r, msgs) ==
    \A i, j \in 1..Len(r) : i < j => msgs[r[i]].sent_at >= msgs[r[j]].sent_at

UnreadFrom(u, partner, msgs) ==
    {m \in UnreadSet(u, msgs) : msgs[m].sender = partner}

\* C17: conversation_unread(u, partner) holds exactly the unread messages
\* partner sent to u, each once, in ascending order of sent_at, while
\* unread_for_user(u) lists its messages in descending order of sent_at; so
\* do the lists the two calls returned.
C17_ConversationAscendingInboxDescending ==
    /\ \A u \in users, partner \in users :
           LET r == conversation_unread(u, partner, messages)
           IN /\ Range(r) = UnreadFrom(u, partner, messages)
              /\ Len(r) = Cardinality(UnreadFrom(u, partner, messages))
              /\ Ascending(r, messages)
    /\ \A u \in users : Descending(unread_for_user(u, messages), messages)
    /\ ret.op = "conversation_unread"
           => /\ Range(ret.result)
                     = UnreadFrom(ret.user, ret.partner, messages)
              /\ Ascending(ret.result, messages)
    /\ ret.op = "unread_for_user" => Descending(ret.result, messages)

\* Two unread messages of one partner, returned oldest first, while the
\* user's inbox query lists the same two newest first.
C17_Witness ==
    /\ ret.op = "conversation_unread"
    /\ Len(ret.result) = 2
    /\ messages[ret.result[1]].sent_at < messages[ret.result[2]].sent_at
    /\ unread_for_user(ret.user, messages)
           = <<ret.result[2], ret.result[1]>>

(* ------------------------ claims on user deletion --------------------- *)
\* The numbers S, R, N and H of user u in a store.
CountsOf(u, msgs, notifs, hist) ==
    [sent_messages_deleted |->
         Cardinality({m \in DOMAIN msgs : msgs[m].sender = u}),
     received_messages_deleted |->
         Cardinality({m \in DOMAIN msgs : msgs[m].receiver = u}),
     notifications_deleted |->
         Cardinality({i \in 1..Len(notifs) : notifs[i].user = u}),
     message_edit_history_deleted |->
         Cardinality({i \in 1..Len(hist) : hist[i].edited_by = u})]

\* C18: the cleanup summary of a successful delete_user holds the numbers
\* of sent messages, received messages, notifications and edit-history
\* entries the user had when the operation started: they are taken from
\* the store at the start, kept through the operation, returned at the
\* end, and are still the user's numbers in the store just before the
\* rows are removed.
C18_SummaryCountsStartOfOperation ==
    [][/\ (tx = NoTx /\ tx' # NoTx)
            => tx'[1].cleanup_summary
                   = CountsOf(tx'[1].user, messages, notifications, history)
       /\ (tx # NoTx /\ tx' # NoTx)
            => tx'[1].cleanup_summary = tx[1].cleanup_summary
       /\ (ret'.op = "delete_user" /\ ret'.status = "ok")
            => /\ tx # NoTx
               /\ ret'.pk = tx[1].user
               /\ ret'.cleanup_summary = tx[1].cleanup_summary
               /\ ret'.cleanup_summary
                      = CountsOf(ret'.pk, messages, notifications, history)
               /\ ret'.pk \notin users']_vars

\* A user with a sent and a received message, a notification and an edit
\* of their own was deleted.
C18_Witness ==
    /\ ret.op = "delete_user" /\ ret.status = "ok"
    /\ ret.cleanup_summary.sent_messages_deleted >= 1
    /\ ret.cleanup_summary.received_messages_deleted >= 1
    /\ ret.cleanup_summary.notifications_deleted >= 1
    /\ ret.cleanup_summary.message_edit_history_deleted >= 1
    /\ ret.pk \notin users

\* C19: delete_user with the id of no stored user answers NotFound and
\* changes no user, message, notification, history row or conversation
\* membership, and opens no transaction.
C19_UnknownUserNotFoundNoEffect ==
    [][(/\ ret'.op = "delete_user"
        /\ tx = NoTx
        /\ ret'.pk # Null
        /\ ret'.pk \notin users)
       => /\ ret'.status = "NotFound"
          /\ UNCHANGED <<tx, users, conversations, messages, instances,
                         notifications, history, next_id, clock>>]_vars

\* The id of a user deleted before was asked to be deleted again, in a
\* store that still holds messages.
C19_Witness ==
    /\ ret.op = "delete_user" /\ ret.status = "NotFound"
    /\ ret.pk \in Users \ users
    /\ DOMAIN messages # {}
    /\ tx = NoTx

\* No stored row refers to a user that is not stored.
NoRowOfMissingUser ==
    /\ \A m \in DOMAIN messages :
           /\ messages[m].sender \in users
           /\ messages[m].receiver \in users \cup {Null}
    /\ \A i \in 1..Len(notifications) : notifications[i].user \in users
    /\ \A i \in 1..Len(history) : history[i].edited_by \in users
    /\ \A c \in DOMAIN conversations :
           conversations[c].participants \subseteq users

\* C20: the user-deletion cascade is atomic.  In every state no row refers
\* to a missing user, whatever sends and edits ran beside the cascade; rows
\* and users leave the store only in the one step that commits a deletion,
\* together with the user; and a deletion that fails, in the cascade, in
\* the post_delete handler or at commit, leaves the store as it was.
C20_CascadeIsAtomic ==
    /\ []NoRowOfMissingUser
    /\ [][/\ (\/ users' # users
              \/ DOMAIN messages \ DOMAIN messages' # {}
              \/ Len(notifications') < Len(notifications)
              \/ Len(history') < Len(history))
             => /\ ret'.op = "delete_user" /\ ret'.status = "ok"
                /\ ret'.pk \in users
                /\ users' = users \ {ret'.pk}
                /\ tx' = NoTx
          /\ (ret'.op = "delete_user" /\ ret'.status # "ok")
             => UNCHANGED <<users, conversations, messages, notifications,
                            history>>
          /\ (ret'.op = "delete_user" /\ ret'.status = "ok")
             => \A m \in DOMAIN messages :
                    (messages[m].sender = ret'.pk
                         \/ messages[m].receiver = ret'.pk)
                        => m \notin DOMAIN messages']_vars

\* A send raced the cascade: the commit failed, and the user and the
\* messages that refer to them are all still stored.
C20_Witness ==
    /\ ret.op = "delete_user" /\ ret.status = "IntegrityError"
    /\ ret.pk \in users
    /\ \E m \in DOMAIN messages : messages[m].sender = ret.pk
    /\ \E m \in DOMAIN messages : messages[m].receiver = ret.pk
    /\ tx = NoTx

\* C21: deleting a user removes the user from the participant set of
\* every conversation and deletes no conversation: every conversation that
\* existed before still exists, with its other participants unchanged.
C21_DeletionDetachesUser ==
    [][\A u \in Users :
           (ret'.op = "User_delete" /\ ret'.pk = u) =>
               /\ DOMAIN conversations' = DOMAIN conversations
               /\ \A c \in DOMAIN conversations :
                      /\ conversations'[c].participants
                             = conversations[c].participants \ {u}
                      /\ conversations'[c].is_group
                             = conversations[c].is_group]_vars

\* The old_content of the history rows of message m, oldest first.
OldContents(m, hist) ==
    LET rows == SelectSeq(hist, LAMBDA h : h.message = m)
    IN [i \in 1..Len(rows) |-> rows[i].old_content]

C23_DirectConversationHasTwoParticipants ==
    /\ [](\A c \in DOMAIN conversations :
              ~conversations[c].is_group =>
                  Cardinality(conversations[c].participants) = 2)
    /\ [][ret'.op = "create_conversation" =>
             IF ret'.status = "ok"
             THEN /\ DOMAIN conversations' = DOMAIN conversations \cup {ret'.pk}
                  /\ ret'.pk \notin DOMAIN conversations
                  /\ ~conversations'[ret'.pk].is_group =>
                         Cardinality(conversations'[ret'.pk].participants) = 2
             ELSE conversations' = conversations]_vars

\* The places in the log of the POSTs that address ip got through.
PassedPosts(ip, calls) ==
    {i \in 1..Len(calls) : /\ calls[i].request.method = "POST"
                            /\ get_client_ip(calls[i].request) = ip}

\* The POSTs of ip that got through less than time_window seconds before now.
RecentPosts(ip, calls, now) ==
    {i \in PassedPosts(ip, calls) : calls[i].time > now - time_window}

WrapperRunning == IF wrapper = NoFrame THEN FALSE ELSE wrapper.pc # "done"
WrapperDone == IF wrapper = NoFrame THEN FALSE ELSE wrapper.pc = "done"

\* C25: a function wrapped by retry_on_failure(retries = r) is invoked at
\* most r + 1 times per call; no invocation follows one that succeeded,
\* whose result the wrapper returns; if all r + 1 invocations raise, the
\* wrapper raises the exception of the last one; and every call of the
\* wrapper ends when every invocation of the function does.
C25_AtMostRetriesPlusOneInvocations ==
    /\ [](IF wrapper = NoFrame THEN TRUE
          ELSE LET invs == wrapper.invocations
                   n == Len(invs)
               IN /\ n <= wrapper.retries + 1
                  /\ \A i \in 1..n - 1 : invs[i] \in Raisable
                  /\ (n > 0 /\ invs[n] = "rows") =>
                         /\ wrapper.pc = "done"
                         /\ wrapper.left = "return rows"
                  /\ (/\ wrapper.pc = "done"
                      /\ n > 0
                      /\ n = wrapper.retries + 1
                      /\ invs[n] \in Raisable) =>
                         wrapper.left = "raise " \o invs[n])
    /\ (WrapperRunning ~> WrapperDone)

\* C25 witness: with retries = 2 the function raised twice and returned at
\* its third invocation, and the wrapper returned that result.
C25_Witness ==
    /\ WrapperDone
    /\ wrapper.retries = 2
    /\ wrapper.invocations = <<"OperationalError", "OperationalError", "rows">>
    /\ wrapper.left = "return rows"

\* C26: only transient store errors are retried: an invocation that raised
\* an error of another class is the last one of its call, and the wrapper
\* raises that error.
C26_OnlyTransientErrorsRetried ==
    IF wrapper = NoFrame THEN TRUE
    ELSE \A i \in 1..Len(wrapper.invocations) :
             wrapper.invocations[i] \in Raisable \ {"OperationalError"} =>
                 /\ i = Len(wrapper.invocations)
                 /\ wrapper.pc = "done"
                 /\ wrapper.left = "raise " \o wrapper.invocations[i]

\* C26 as amended: every error of class Exception is retried, transient
\* or not: while fewer than retries + 1 invocations have raised and the
\* delay is not negative, the wrapper does not end on such an error and
\* invokes the function again; an exception that is not an Exception is
\* raised by the wrapper after the invocation that raised it.
C26_EveryExceptionRetried ==
    /\ [](IF wrapper = NoFrame THEN TRUE
          ELSE LET invs == wrapper.invocations
               IN \A i \in 1..Len(invs) :
                      /\ (/\ invs[i] \in {"OperationalError", "ValueError"}
                          /\ i <= wrapper.retries
                          /\ wrapper.delay >= 0
                          /\ i = Len(invs)) => wrapper.pc # "done"
                      /\ invs[i] = "KeyboardInterrupt" =>
                             /\ i = Len(invs)
                             /\ wrapper.pc = "done"
                             /\ wrapper.left = "raise KeyboardInterrupt")
    /\ \A n \in 1..MaxRetries :
           (IF wrapper = NoFrame THEN FALSE
            ELSE /\ Len(wrapper.invocations) = n
                 /\ wrapper.invocations[n] \in {"OperationalError", "ValueError"}
                 /\ n <= wrapper.retries
                 /\ wrapper.delay >= 0)
               ~> (IF wrapper = NoFrame THEN FALSE
                   ELSE Len(wrapper.invocations) = n + 1)

\* C26 witness: a ValueError of the first invocation was retried and the
\* KeyboardInterrupt of the second left the wrapper.
C26_Witness ==
    /\ WrapperDone
    /\ wrapper.delay >= 0
    /\ wrapper.invocations = <<"ValueError", "KeyboardInterrupt">>
    /\ wrapper.left = "raise KeyboardInterrupt"

\* C27: deleting user u deletes only the notifications that u owns or
\* whose source message the cascade deletes: the notifications of the
\* other users that have no source message, or whose message is still
\* stored, are present and unchanged after the deletion.
C27_OnlyOwnOrOrphanedNotificationsDeleted ==
    [][(ret'.op = "delete_user" /\ ret'.status = "ok") =>
           notifications' = SelectSeq(notifications, LAMBDA n :
               /\ n.user # ret'.pk
               /\ (n.message = Null \/ n.message \in DOMAIN messages'))]_vars

(* ---------------------- claims on the size of a thread ---------------- *)
RECURSIVE NodeCount(_)
NodeCount(node) ==
    LET RECURSIVE Sum(_)
        Sum(i) == IF i = 0 THEN 0
                  ELSE NodeCount(node.replies[i]) + Sum(i - 1)
    IN 1 + Sum(Len(node.replies))

RECURSIVE ExpansionStopsAtBound(_, _, _)
ExpansionStopsAtBound(node, depth, k) ==
    /\ depth >= k => node.replies = <<>>
    /\ \A i \in 1..Len(node.replies) :
           ExpansionStopsAtBound(node.replies[i], depth + 1, k)

\* C29: for every store, cyclic ones included, and every max_depth, the
\* thread builder returns a tree in which no node at depth max_depth or
\* deeper is expanded and whose number of nodes stays under a cap that the
\* stored parent links cannot raise: here, one node for each stored message.
C29_ThreadWorkIsCapped ==
    (ret.op = "get_message_thread" /\ ret.thread # NoThread)
    => /\ ExpansionStopsAtBound(ret.thread[1], 0, ret.max_depth)
       /\ NodeCount(ret.thread[1]) <= MaxCorruptMsgs

(* ---------------------- claims on the parent links -------------------- *)
\* The messages met by following parent_message upwards from x.
RECURSIVE Upwards(_, _)
Upwards(x, fuel) ==
    IF x = Null \/ x \notin DOMAIN messages \/ fuel = 0 THEN {}
    ELSE {x} \cup Upwards(messages[x].parent_message, fuel - 1)

\* C30: in every state the sends, replies, edits, read-markings and
\* cascading deletions reach, the parent_message links form a forest: every
\* non-null parent_message is a stored message, and no message is its own
\* parent or its own ancestor.
C30_ParentLinksFormForest ==
    \A m \in DOMAIN messages :
        /\ messages[m].parent_message \in DOMAIN messages \cup {Null}
        /\ m \notin Upwards(messages[m].parent_message,
                            Cardinality(DOMAIN messages))

\* C30 witness: a reply that was deleted is stored again, under its parent,
\* by the save() of a request that had loaded it before the deletion.
C30_Witness ==
    /\ ret.op \in {"save", "mark_as_read"}
    /\ ret.created
    /\ ret.pk \in DOMAIN messages
    /\ messages[ret.pk].parent_message # Null

====
